---- MODULE Spec2Model ----
(***************************************************************************)
(* Seq2Single (src/src/seq2single.ipynb): re-ranking of the top-N global   *)
(* image matches of a query by depth-filtered, sequence-aggregated local   *)
(* descriptor matching.                                                    *)
(*                                                                         *)
(* Numbers.  The notebook computes in IEEE doubles.  A distance is         *)
(* modelled in fixed point, as an integer count of 1/Scale units, and the  *)
(* one non-finite value the notebook can produce, not-a-number, as the     *)
(* integer NaN outside the range of every finite value.  Arrays are        *)
(* 1-based sequences holding the notebook's 0-based indices as values.     *)
(***************************************************************************)
EXTENDS Integers, Sequences, FiniteSets, TLC

VARIABLES
    pc,             \* position of the notebook's control
    refIdx,         \* getRefSeqInfo: centre reference index
    maxIndVal,      \* getRefSeqInfo: number of reference images
    seqLen,         \* getRefSeqInfo / matchData: window length
    seqRange,       \* getRefSeqInfo: the returned index range
    kp_d,           \* filterKPs_depth: depth of every keypoint
    minD,           \* filterKPs_depth: lower end of the open interval
    maxD,           \* filterKPs_depth: upper end of the open interval
    inRangeInds,    \* filterKPs_depth: the returned keypoint indices
    resShape,       \* getKpDep: shape <<rows, cols>> of the feature grid (c5Shape)
    depImg,         \* getKpDep: one depth map, a rows x cols array
    kpIndFlat,      \* getKpDep: flat grid index of every keypoint
    kp2d,           \* getKpDep: pixel coordinates <<x, y>> of every keypoint
    kp_dep,         \* getKpDep: the returned depth of every keypoint
    distMat,        \* global cosine distances, distMat[r][q], R x Q
    topN,           \* number of top matches kept for re-ranking
    topMatches,     \* topMatches[j][q]: the j-th best reference of query q
    denseFtRefAll,  \* dense tensor [cell][channel] of every reference image
    depImgRefAll,   \* depth map [row][col] of every reference image
    denseFtQueryAll, \* stored dense tensor of every query image (loadC5Tensor)
    seqL,           \* number of adjacent frames to consider
    depT,           \* depth range to consider for keypoints
    finalScores,    \* finalScores[q][j]: score of candidate j of query q
    bestMatch,      \* bestMatch[q]: the re-ranked match of query q
    MULTITHREADING_ON, \* the mode of the driver
    i,              \* the loop variable: a query index, in parallel mode the first of the batch
    scores,         \* parallel mode: the list of the batches' results
    taskq,          \* pool.map: the query indices no worker has taken yet
    worker,         \* pool: the query index every worker thread is processing
    mapResult,      \* pool.map: one slot per query of the batch, in input order
    started,        \* history: the query indices in the order their calls began
    finished        \* history: the query indices in the order their calls returned

windowVars == <<refIdx, maxIndVal, seqLen, seqRange>>
depthVars == <<kp_d, minD, maxD, inRangeInds>>
kpVars == <<resShape, depImg, kpIndFlat, kp2d, kp_dep>>

retrievalVars == <<distMat, topN, topMatches>>

dataVars == <<denseFtRefAll, depImgRefAll, denseFtQueryAll, seqL, depT>>
resultVars == <<finalScores, bestMatch>>
driverVars == <<MULTITHREADING_ON, i, scores, taskq, worker, mapResult, started, finished>>

vars == <<pc, windowVars, depthVars, kpVars, retrievalVars, dataVars, resultVars, driverVars>>

-----------------------------------------------------------------------------
(* Bounds of the model *)

MaxIndVal == 6      \* reference images, Sequence Window Builder
MaxSeqLen == 5      \* window lengths, Sequence Window Builder
MaxKPs == 3         \* keypoints in a depth vector, Depth Filter
MaxDepth == 3       \* depth values 0..MaxDepth (and -1, NaN), Depth Filter
MaxGrid == 3        \* rows and columns of the feature grid, Keypoint Projector
MaxImg == 5         \* rows and columns of the depth map, Keypoint Projector
FracBits == 8       \* fraction bits of the fixed-point scale factor
MaxRef == 3         \* rows (reference images) of the distance matrix
MaxQuery == 2       \* columns (query images) of the distance matrix
MaxCells == 6       \* entries of the distance matrix
MaxDist == 1        \* global distances 0..MaxDist
MaxTopN == 3        \* values of topN
NumRefImgs == 3     \* reference images, Candidate Re-ranker
MaxCand == 2        \* candidates per query, Candidate Re-ranker
MaxWindow == 3      \* values of seqL, Candidate Re-ranker
Scale == 100        \* a cosine distance d is the integer d * Scale
MaxQueryImgs == 6   \* query images, Batch Driver

\* IEEE not-a-number, outside the range of every finite value of the model
NaN == -1000000

-----------------------------------------------------------------------------
(* Helpers for numpy idioms *)

Max2(a, b) == IF a >= b THEN a ELSE b
Min2(a, b) == IF a <= b THEN a ELSE b

\* np.arange(lb, ub): lb, lb+1, ..., ub-1; empty when ub <= lb
Arange(lb, ub) == [j \in 1..(IF ub > lb THEN ub - lb ELSE 0) |-> lb + j - 1]

\* int(np.floor(n/2.0)) and int(np.ceil(n/2.0)) for n >= 0
FloorHalf(n) == n \div 2
CeilHalf(n) == (n + 1) \div 2

Range(s) == {s[j] : j \in DOMAIN s}

-----------------------------------------------------------------------------
(* Sequence Window Builder *)

getRefSeqInfo_NoUpperClamp(r, n, L) ==
    Arange(Max2(r - FloorHalf(L), 0), r + CeilHalf(L))

getRefSeqInfo(r, n, L) ==
    LET lb == Max2(r - FloorHalf(L), 0)
        ub == Min2(r + CeilHalf(L), n)
    IN  Arange(lb, ub)

WindowIdle ==
    /\ refIdx = 0
    /\ maxIndVal = 0
    /\ seqLen = 0
    /\ seqRange = <<>>

DepthIdle ==
    /\ kp_d = <<>>
    /\ minD = 0
    /\ maxD = 0
    /\ inRangeInds = <<>>

KpIdle ==
    /\ resShape = <<0, 0>>
    /\ depImg = <<>>
    /\ kpIndFlat = <<>>
    /\ kp2d = <<>>
    /\ kp_dep = <<>>

RetrievalIdle ==
    /\ distMat = <<>>
    /\ topN = 0
    /\ topMatches = <<>>

MatchIdle ==
    /\ denseFtRefAll = <<>>
    /\ depImgRefAll = <<>>
    /\ denseFtQueryAll = <<>>
    /\ seqL = 0
    /\ depT = 0
    /\ finalScores = <<>>
    /\ bestMatch = <<>>

\* the parallel driver has not run: MULTITHREADING_ON = False
DriverIdle ==
    /\ MULTITHREADING_ON = FALSE
    /\ i = 0
    /\ scores = <<>>
    /\ taskq = <<>>
    /\ worker = <<>>
    /\ mapResult = <<>>
    /\ started = <<>>
    /\ finished = <<>>

WindowInit ==
    /\ pc = "window"
    /\ DepthIdle
    /\ KpIdle
    /\ RetrievalIdle
    /\ MatchIdle
    /\ DriverIdle
    /\ maxIndVal \in 1..MaxIndVal
    /\ refIdx \in 0..(maxIndVal - 1)
    /\ seqLen \in 0..MaxSeqLen
    /\ seqRange = <<>>

CallGetRefSeqInfo ==
    /\ pc = "window"
    /\ seqRange' = getRefSeqInfo(refIdx, maxIndVal, seqLen)
    /\ pc' = "window_done"
    /\ UNCHANGED <<refIdx, maxIndVal, seqLen, depthVars, kpVars, retrievalVars, dataVars, resultVars, driverVars>>

WindowNext == CallGetRefSeqInfo

SpecWindow == WindowInit /\ [][WindowNext]_vars

-----------------------------------------------------------------------------
(* C1: for 0 <= r < numRefImages and L >= 1 the window is a non-empty run   *)
(* of consecutive indices inside [0, numRefImages) that contains r, is at   *)
(* most L long, and is shorter than L only when r - floor(L/2) < 0 or       *)
(* r + ceil(L/2) > numRefImages.                                            *)
WindowClamped ==
    (pc = "window_done" /\ seqLen >= 1) =>
        /\ Len(seqRange) >= 1
        /\ \A j \in 1..(Len(seqRange) - 1) : seqRange[j + 1] = seqRange[j] + 1
        /\ \A j \in 1..Len(seqRange) : seqRange[j] >= 0 /\ seqRange[j] < maxIndVal
        /\ \E j \in 1..Len(seqRange) : seqRange[j] = refIdx
        /\ Len(seqRange) <= seqLen
        /\ Len(seqRange) < seqLen =>
              \/ refIdx - (seqLen \div 2) < 0
              \/ refIdx + (seqLen - (seqLen \div 2)) > maxIndVal

\* a window cut short at the end of the reference sequence
WindowClampedWitness ==
    /\ pc = "window_done"
    /\ seqLen >= 3
    /\ refIdx = maxIndVal - 1
    /\ refIdx - (seqLen \div 2) >= 0
    /\ Len(seqRange) < seqLen

(* C10: with sequence length 4 the window of a candidate r at least two     *)
(* frames from both ends is the frames r-2 .. r+2 inclusive.                *)
WindowOfFourIsFiveFrames ==
    (/\ pc = "window_done"
     /\ seqLen = 4
     /\ refIdx >= 2
     /\ refIdx + 2 <= maxIndVal - 1) =>
        seqRange = <<refIdx - 2, refIdx - 1, refIdx, refIdx + 1, refIdx + 2>>

-----------------------------------------------------------------------------
(* IEEE comparisons: every ordered comparison with not-a-number is false,   *)
(* and not-a-number is unequal to everything, itself included.              *)

FLt(a, b) == a # NaN /\ b # NaN /\ a < b
FGt(a, b) == a # NaN /\ b # NaN /\ a > b
FNe(a, b) == a = NaN \/ b = NaN \/ a # b

\* np.argwhere(mask)[:,0] / np.argwhere(mask).flatten() of a 1-d boolean
\* array: the 0-based positions that hold True, in increasing order
RECURSIVE ArgWhereUpTo(_, _)
ArgWhereUpTo(mask, n) ==
    IF n = 0 THEN <<>>
    ELSE IF mask[n] THEN Append(ArgWhereUpTo(mask, n - 1), n - 1)
         ELSE ArgWhereUpTo(mask, n - 1)

ArgWhere(mask) == ArgWhereUpTo(mask, Len(mask))

-----------------------------------------------------------------------------
(* Depth Filter *)

filterKPs_depth_Closed(d, lo, hi) ==
    ArgWhere([j \in 1..Len(d) |-> (d[j] # NaN /\ d[j] <= hi) /\ FGt(d[j], lo)])

filterKPs_depth(d, lo, hi) ==
    ArgWhere([j \in 1..Len(d) |-> FLt(d[j], hi) /\ FGt(d[j], lo)])

RECURSIVE SeqsUpTo(_, _)
\* every sequence over S of length at most n
SeqsUpTo(S, n) ==
    IF n = 0 THEN {<<>>}
    ELSE LET shorter == SeqsUpTo(S, n - 1)
         IN  shorter \cup {Append(s, v) : s \in shorter, v \in S}

DepthVals == (-1..MaxDepth) \cup {NaN}

DepthInit ==
    /\ pc = "depth"
    /\ WindowIdle
    /\ KpIdle
    /\ RetrievalIdle
    /\ MatchIdle
    /\ DriverIdle
    /\ kp_d \in SeqsUpTo(DepthVals, MaxKPs)
    /\ minD \in -1..MaxDepth
    /\ maxD \in (minD + 1)..(MaxDepth + 1)
    /\ inRangeInds = <<>>

CallFilterKPs_depth ==
    /\ pc = "depth"
    /\ inRangeInds' = filterKPs_depth(kp_d, minD, maxD)
    /\ pc' = "depth_done"
    /\ UNCHANGED <<kp_d, minD, maxD, windowVars, kpVars, retrievalVars, dataVars, resultVars, driverVars>>

DepthNext == CallFilterKPs_depth

SpecDepth == DepthInit /\ [][DepthNext]_vars

\* the depth lies strictly inside (lo, hi); not-a-number lies in no interval
StrictlyInside(d, lo, hi) == d # NaN /\ lo < d /\ d < hi

(* C6: for minDepth < maxDepth the filter returns, in increasing order and  *)
(* without duplicates, exactly the positions in [0, length) whose depth is  *)
(* strictly inside (minDepth, maxDepth).                                    *)
DepthFilterExact ==
    pc = "depth_done" =>
        /\ \A j \in 1..(Len(inRangeInds) - 1) : inRangeInds[j] < inRangeInds[j + 1]
        /\ \A j \in 1..Len(inRangeInds) :
              /\ inRangeInds[j] >= 0
              /\ inRangeInds[j] < Len(kp_d)
              /\ StrictlyInside(kp_d[inRangeInds[j] + 1], minD, maxD)
        /\ \A idx \in 0..(Len(kp_d) - 1) :
              StrictlyInside(kp_d[idx + 1], minD, maxD) =>
                  \E j \in 1..Len(inRangeInds) : inRangeInds[j] = idx

\* minDepth = 0: a depth equal to the upper end and a zero depth are left
\* out, and the one depth inside the interval is kept
DepthFilterExactWitness ==
    /\ pc = "depth_done"
    /\ minD = 0
    /\ Len(kp_d) = 3
    /\ kp_d[1] = maxD
    /\ kp_d[2] = 0
    /\ StrictlyInside(kp_d[3], minD, maxD)
    /\ inRangeInds = <<2>>

-----------------------------------------------------------------------------
(* Keypoint Projector.  A scale factor is a fixed-point number: the integer *)
(* f stands for f / One.                                                    *)

One == 2 ^ FracBits

\* a / b rounded to the nearest representable value
FDiv(a, b) == (2 * a * One + b) \div (2 * b)

\* astype(int): truncation toward zero
Trunc(f) == IF f >= 0 THEN f \div One ELSE -((-f) \div One)

\* mulFac_dep2c5 = np.array([dImgRows,dImgCols])/c5Shape.astype(float)
mulFac_dep2c5(depShape, c5Shape) ==
    <<FDiv(depShape[1], c5Shape[1]), FDiv(depShape[2], c5Shape[2])>>

\* np.unravel_index(i, shape), C order: <<row, col>>
UnravelIndex(idx, shape) == <<idx \div shape[2], idx % shape[2]>>

getKP2d_NoFlip(kpInds, resShape_, mulFac_) ==
    [j \in 1..Len(kpInds) |->
        LET rc == UnravelIndex(kpInds[j], resShape_)
        IN  <<Trunc(mulFac_[1] * rc[1]), Trunc(mulFac_[2] * rc[2])>>]

\* <<x, y>> of every keypoint: the columns of [row, col] * mulFac_ swapped
getKP2d(kpInds, resShape_, mulFac_) ==
    [j \in 1..Len(kpInds) |->
        LET rc == UnravelIndex(kpInds[j], resShape_)
        IN  <<Trunc(mulFac_[2] * rc[2]), Trunc(mulFac_[1] * rc[1])>>]

ImgShape(img) == <<Len(img), IF Len(img) = 0 THEN 0 ELSE Len(img[1])>>

\* img[y, x] raises IndexError unless -rows <= y < rows and -cols <= x < cols
IndexInBounds(img, y, x) ==
    /\ y >= -ImgShape(img)[1] /\ y < ImgShape(img)[1]
    /\ x >= -ImgShape(img)[2] /\ x < ImgShape(img)[2]

\* img[y, x]; a negative index counts from the end
Index2(img, y, x) ==
    img[(IF y >= 0 THEN y ELSE y + ImgShape(img)[1]) + 1]
       [(IF x >= 0 THEN x ELSE x + ImgShape(img)[2]) + 1]

\* kp2d = getKP2d(...); depImg[kp2d[:,1].flatten(), kp2d[:,0].flatten()]
getKpDep(kpInds, img, resShape_, mulFac_) ==
    LET kp == getKP2d(kpInds, resShape_, mulFac_)
    IN  [j \in 1..Len(kpInds) |-> Index2(img, kp[j][2], kp[j][1])]

\* a depth map that holds at every pixel the pixel's own flat index
LabelledImg(rows, cols) ==
    [r \in 1..rows |-> [c \in 1..cols |-> (r - 1) * cols + (c - 1)]]

KpInit ==
    /\ pc = "kp"
    /\ WindowIdle
    /\ DepthIdle
    /\ RetrievalIdle
    /\ MatchIdle
    /\ DriverIdle
    /\ resShape \in (1..MaxGrid) \X (1..MaxGrid)
    /\ \E rows \in 1..MaxImg, cols \in 1..MaxImg : depImg = LabelledImg(rows, cols)
    /\ \E n \in 1..2 : kpIndFlat \in [1..n -> 0..(resShape[1] * resShape[2] - 1)]
    /\ kp2d = <<>>
    /\ kp_dep = <<>>

\* kp_dep = getKpDep(...); the lookup raises IndexError when a projected
\* coordinate lies outside the depth map, and nothing is returned
CallGetKpDep ==
    /\ pc = "kp"
    /\ kp2d' = getKP2d(kpIndFlat, resShape, mulFac_dep2c5(ImgShape(depImg), resShape))
    /\ IF \A j \in 1..Len(kpIndFlat) : IndexInBounds(depImg, kp2d'[j][2], kp2d'[j][1])
       THEN /\ kp_dep' = getKpDep(kpIndFlat, depImg, resShape,
                                  mulFac_dep2c5(ImgShape(depImg), resShape))
            /\ pc' = "kp_done"
       ELSE /\ kp_dep' = kp_dep
            /\ pc' = "kp_IndexError"
    /\ UNCHANGED <<resShape, depImg, kpIndFlat, windowVars, depthVars, retrievalVars, dataVars, resultVars, driverVars>>

KpNext == CallGetKpDep

SpecKp == KpInit /\ [][KpNext]_vars

(* C9: for every flat index i of the grid, getKP2d returns <<x, y>> =       *)
(* <<trunc(col*scaleCol), trunc(row*scaleRow)>> with <<row, col>> the       *)
(* row-major unravelling of i; 0 <= x < fullCols and 0 <= y < fullRows, so  *)
(* the lookup depImg[y, x] of getKpDep never leaves the depth map.          *)
ProjectionInsideDepthMap ==
    pc \in {"kp_done", "kp_IndexError"} =>
        /\ pc = "kp_done"
        /\ Len(kp2d) = Len(kpIndFlat)
        /\ \A j \in 1..Len(kpIndFlat) :
              LET row == kpIndFlat[j] \div resShape[2]
                  col == kpIndFlat[j] % resShape[2]
                  scaleRow == FDiv(Len(depImg), resShape[1])
                  scaleCol == FDiv(Len(depImg[1]), resShape[2])
                  x == kp2d[j][1]
                  y == kp2d[j][2]
              IN  /\ x = (col * scaleCol) \div One
                  /\ y = (row * scaleRow) \div One
                  /\ x >= 0 /\ x < Len(depImg[1])
                  /\ y >= 0 /\ y < Len(depImg)
                  /\ kp_dep[j] = depImg[y + 1][x + 1]

\* the last cell of a grid under scale factors that are not integers
ProjectionInsideDepthMapWitness ==
    /\ pc = "kp_done"
    /\ resShape = <<2, 3>>
    /\ ImgShape(depImg) = <<3, 5>>
    /\ kpIndFlat = <<5>>
    /\ kp2d = <<<<3, 1>>>>

-----------------------------------------------------------------------------
(* Global Retrieval *)

NumRows(mat) == Len(mat)
NumCols(mat) == IF Len(mat) = 0 THEN 0 ELSE Len(mat[1])

\* mat[:, q] for the 0-based column q
Column(mat, q) == [r \in 1..Len(mat) |-> mat[r][q + 1]]

IsPermutation(p, n) ==
    /\ \A j \in 1..n : p[j] \in 0..(n - 1)
    /\ \A j, k \in 1..n : j # k => p[j] # p[k]

IsArgsort_Descending(p, col) ==
    /\ IsPermutation(p, Len(col))
    /\ \A j \in 1..(Len(col) - 1) : col[p[j] + 1] >= col[p[j + 1] + 1]

\* p is a result np.argsort may give for the 1-d array col: a permutation of
\* the indices that puts the values in non-decreasing order.  The default
\* kind of sort is not stable, so equal values may come in any order.
IsArgsort(p, col) ==
    /\ IsPermutation(p, Len(col))
    /\ \A j \in 1..(Len(col) - 1) : col[p[j] + 1] <= col[p[j + 1] + 1]

IndexPermutations(n) == {p \in [1..n -> 0..(n - 1)] : IsPermutation(p, n)}

\* rows [:n] of the per-column argsort results perms[q]
TopRows(perms, n, numRows, numCols) ==
    [j \in 1..Min2(n, numRows) |-> [q \in 1..numCols |-> perms[q][j]]]

RetrievalInit ==
    /\ pc = "retrieval"
    /\ WindowIdle
    /\ DepthIdle
    /\ KpIdle
    /\ MatchIdle
    /\ DriverIdle
    /\ \E R \in 1..MaxRef, Q \in 1..MaxQuery :
          /\ R * Q <= MaxCells
          /\ distMat \in [1..R -> [1..Q -> 0..MaxDist]]
    /\ topN \in 1..MaxTopN
    /\ topMatches = <<>>

\* topMatches = np.argsort(distMat,axis=0)[:topN,:]
ComputeTopMatches ==
    /\ pc = "retrieval"
    /\ \E perms \in [1..NumCols(distMat) -> IndexPermutations(NumRows(distMat))] :
          /\ \A q \in 1..NumCols(distMat) : IsArgsort(perms[q], Column(distMat, q - 1))
          /\ topMatches' = TopRows(perms, topN, NumRows(distMat), NumCols(distMat))
    /\ pc' = "retrieval_done"
    /\ UNCHANGED <<distMat, topN, windowVars, depthVars, kpVars, dataVars, resultVars, driverVars>>

RetrievalNext == ComputeTopMatches

SpecRetrieval == RetrievalInit /\ [][RetrievalNext]_vars

(* C8: for every query column q, topMatches[:, q] holds min(topN, R)        *)
(* distinct reference indices in order of non-decreasing global distance,   *)
(* no reference outside the list is strictly nearer than one inside it, and *)
(* position 0, the baseline match, is a minimizer of the column.            *)
TopMatchesAreNearest ==
    pc = "retrieval_done" =>
        /\ Len(topMatches) = (IF topN <= Len(distMat) THEN topN ELSE Len(distMat))
        /\ \A q \in 1..Len(distMat[1]) :
              /\ \A j \in 1..Len(topMatches) :
                    topMatches[j][q] >= 0 /\ topMatches[j][q] < Len(distMat)
              /\ \A j, k \in 1..Len(topMatches) :
                    j < k => /\ topMatches[j][q] # topMatches[k][q]
                             /\ distMat[topMatches[j][q] + 1][q]
                                    <= distMat[topMatches[k][q] + 1][q]
              /\ \A r \in 0..(Len(distMat) - 1) :
                    (\A j \in 1..Len(topMatches) : topMatches[j][q] # r) =>
                        \A j \in 1..Len(topMatches) :
                            distMat[r + 1][q] >= distMat[topMatches[j][q] + 1][q]
              /\ \A r \in 0..(Len(distMat) - 1) :
                    distMat[topMatches[1][q] + 1][q] <= distMat[r + 1][q]

\* two columns with different minimizers, neither at row 0, and a list
\* shorter than the column
TopMatchesAreNearestWitness ==
    /\ pc = "retrieval_done"
    /\ Len(distMat) = 3
    /\ Len(distMat[1]) = 2
    /\ topN = 2
    /\ topMatches[1] = <<1, 2>>
    /\ distMat[1][1] > distMat[2][1]
    /\ distMat[1][2] > distMat[3][2]

-----------------------------------------------------------------------------
(* Pairwise Descriptor Distance, in fixed point *)

RECURSIVE SumTo(_, _)
\* s[1] + ... + s[n]
SumTo(s, n) == IF n = 0 THEN 0 ELSE SumTo(s, n - 1) + s[n]

Dot(a, b) == SumTo([j \in 1..Len(a) |-> a[j] * b[j]], Len(a))

RECURSIVE IsqrtIn(_, _, _)
\* the largest r in lo..hi with r * r <= n
IsqrtIn(n, lo, hi) ==
    IF lo >= hi THEN lo
    ELSE LET mid == (lo + hi + 1) \div 2
         IN  IF mid * mid <= n THEN IsqrtIn(n, mid, hi) ELSE IsqrtIn(n, lo, mid - 1)

\* np.linalg.norm(d) of one descriptor, as the integer norm * Scale
Norm(d) ==
    LET sumSq == Dot(d, d)
    IN  IsqrtIn(sumSq * Scale * Scale, 0, sumSq * Scale)

\* 1 - sum(d1*d2)/(norm(d1)*norm(d2)) of one pair; a zero-norm descriptor
\* makes the quotient 0/0, which numpy evaluates to nan
CosineDistance(d1, d2) ==
    LET norms == Norm(d1) * Norm(d2)
    IN  IF norms = 0 THEN NaN
        ELSE Scale - (Dot(d1, d2) * Scale * Scale * Scale) \div norms

get_cosine_corresponding_vectors(d1, d2) ==
    [j \in 1..Len(d1) |-> CosineDistance(d1[j], d2[j])]

-----------------------------------------------------------------------------
(* Candidate Re-ranker *)

\* c5Shape, the feature grid <<rows, cols>>; [20,31] in the notebook
c5Shape == <<1, 2>>

\* the value the distance table is filled with, 100
Sentinel == 100 * Scale

numRefImgs == Len(denseFtRefAll)
numQueryImgs == Len(denseFtQueryAll)
numFmaps == Len(denseFtRefAll[1][1])

\* np.argmax(t, axis=0): for every channel the 0-based cell of the first
\* largest response
ArgmaxAxis0(t) ==
    [c \in 1..Len(t[1]) |->
        (CHOOSE r \in 1..Len(t) :
            /\ \A r2 \in 1..Len(t) : t[r2][c] <= t[r][c]
            /\ \A r2 \in 1..(r - 1) : t[r2][c] < t[r][c]) - 1]

\* a[inds]: the entries of a at the 0-based positions inds
Take(a, inds) == [j \in 1..Len(inds) |-> a[inds[j] + 1]]

\* the position of v in the sequence inds, 0 when absent
PositionIn(inds, v) ==
    IF \E j \in 1..Len(inds) : inds[j] = v
    THEN CHOOSE j \in 1..Len(inds) : inds[j] = v
    ELSE 0

\* one column distMat[:, lc] of the distance table after the body of the loop
\* over the window: the distances of the channels that pass the depth filter
\* in reference frame k1, the sentinel elsewhere
FrameColumn(denseDescQuery, kp2IndFlat, k1, c5ShapeIn, mulFac, depThresh) ==
    LET denseDescRef == denseFtRefAll[k1 + 1]
        kp1IndFlatRef == ArgmaxAxis0(denseDescRef)
        kp1_depth == getKpDep(kp1IndFlatRef, depImgRefAll[k1 + 1], c5ShapeIn, mulFac)
        inRange == filterKPs_depth(kp1_depth, 0, depThresh)
        descRefSubset == Take(denseDescRef, Take(kp1IndFlatRef, inRange))
        descQuerySubset == Take(denseDescQuery, Take(kp2IndFlat, inRange))
        dists == get_cosine_corresponding_vectors(descRefSubset, descQuerySubset)
    IN  [c \in 1..Len(denseDescQuery[1]) |->
            LET pos == PositionIn(inRange, c - 1)
            IN  IF pos = 0 THEN Sentinel ELSE dists[pos]]

RECURSIVE MaxTo(_, _)
MaxTo(row, n) == IF n = 1 THEN row[1] ELSE Max2(MaxTo(row, n - 1), row[n])

RECURSIVE MinTo(_, _)
MinTo(row, n) == IF n = 1 THEN row[1] ELSE Min2(MinTo(row, n - 1), row[n])

HasNaN(row) == \E j \in 1..Len(row) : row[j] = NaN

RowMax(row) == IF HasNaN(row) THEN NaN ELSE MaxTo(row, Len(row))

\* np.min of one row of the distance table; not-a-number propagates
RowMin(row) == IF HasNaN(row) THEN NaN ELSE MinTo(row, Len(row))

\* np.mean: nan for an empty array (RuntimeWarning, no exception) and for
\* an array that holds a nan
Mean(vals) ==
    IF Len(vals) = 0 \/ HasNaN(vals) THEN NaN
    ELSE SumTo(vals, Len(vals)) \div Len(vals)

\* minDists = np.min(distMat,axis=1) for the candidate rIdx
minDistsOf(denseDescQuery, rIdx, c5ShapeIn, mulFac, numRefImgs_, seqLen_, depThresh) ==
    LET kp2IndFlat == ArgmaxAxis0(denseDescQuery)
        window == getRefSeqInfo(rIdx, numRefImgs_, seqLen_)
        table == [lc \in 1..Len(window) |->
                    FrameColumn(denseDescQuery, kp2IndFlat, window[lc],
                                c5ShapeIn, mulFac, depThresh)]
    IN  [c \in 1..Len(denseDescQuery[1]) |->
            RowMin([lc \in 1..Len(window) |-> table[lc][c]])]

\* validInds1 = np.argwhere(minDists!=100).flatten()
validInds1(minDists) ==
    ArgWhere([j \in 1..Len(minDists) |-> FNe(minDists[j], Sentinel)])

\* the score matchData appends for one candidate
meanDist(denseDescQuery, rIdx, c5ShapeIn, mulFac, numRefImgs_, seqLen_, depThresh) ==
    LET minDists == minDistsOf(denseDescQuery, rIdx, c5ShapeIn, mulFac,
                               numRefImgs_, seqLen_, depThresh)
        distVals == Take(minDists, validInds1(minDists))
    IN  Mean(distVals)

matchData(denseDescQuery, topMatchIndsList, c5ShapeIn, mulFac, numRefImgs_, seqLen_, depThresh) ==
    [j \in 1..Len(topMatchIndsList) |->
        meanDist(denseDescQuery, topMatchIndsList[j], c5ShapeIn, mulFac,
                 numRefImgs_, seqLen_, depThresh)]

\* dImgRows, dImgCols = depImgRefAll.shape[1], depImgRefAll.shape[2]
dImgShape == ImgShape(depImgRefAll[1])

processQueryIndex(qIdx) ==
    matchData(denseFtQueryAll[qIdx + 1], Column(topMatches, qIdx), c5Shape,
              mulFac_dep2c5(dImgShape, c5Shape), numRefImgs, seqL, depT)

-----------------------------------------------------------------------------
(* Batch Driver: selection of the final match *)

Argmin_Last(row) ==
    IF HasNaN(row)
    THEN (CHOOSE j \in 1..Len(row) : row[j] = NaN /\ \A k \in 1..(j - 1) : row[k] # NaN) - 1
    ELSE (CHOOSE j \in 1..Len(row) :
            /\ \A k \in 1..Len(row) : row[j] <= row[k]
            /\ \A k \in (j + 1)..Len(row) : row[j] < row[k]) - 1

\* np.argmin of one row: the first nan when there is one, else the first
\* smallest value; 0-based
Argmin(row) ==
    IF HasNaN(row)
    THEN (CHOOSE j \in 1..Len(row) : row[j] = NaN /\ \A k \in 1..(j - 1) : row[k] # NaN) - 1
    ELSE (CHOOSE j \in 1..Len(row) :
            /\ \A k \in 1..Len(row) : row[j] <= row[k]
            /\ \A k \in 1..(j - 1) : row[j] < row[k]) - 1

\* topMatches[np.argmin(finalScores,axis=1),np.arange(numQueryImgs)]
bestMatchOf(rows, matches) ==
    [q \in 1..Len(rows) |-> matches[Argmin(rows[q]) + 1][q]]

-----------------------------------------------------------------------------
(* Input data of the Candidate Re-ranker.  A dense tensor has one row per   *)
(* cell of the 1 x 2 grid and one column per channel; a depth map is 1 x 3, *)
(* so that the scale factor 3/2 is not an integer: cell 0 is looked up at   *)
(* pixel 0 and cell 1 at pixel 1.                                           *)

\* channel 0 peaks at cell 0, channel 1 at cell 1
DenseA == <<<<1, 0>>, <<0, 1>>>>
\* channel 0 peaks at cell 1, channel 1 (a tie) at cell 0
DenseB == <<<<1, 1>>, <<2, 1>>>>
\* channel 0 is flat: its keypoint is cell 0, whose descriptor has norm zero
DenseZ == <<<<0, 0>>, <<0, 1>>>>

\* a reference frame: dense tensor and depth map
FrameChoices ==
    { [dense |-> DenseA, dep |-> <<<<1, 5, 1>>>>],     \* cell 0 near, cell 1 far
      [dense |-> DenseB, dep |-> <<<<0, 1, 1>>>>],     \* cell 0 unknown, cell 1 near
      [dense |-> DenseA, dep |-> <<<<0, 5, 1>>>>] }    \* cell 0 unknown, cell 1 far

QueryChoices == {DenseA, DenseB, DenseZ}

\* depth thresholds: 5 is out of range under the first and in range under the second
DepTChoices == {2, 6}

\* the lists of n distinct reference indices
CandidateLists(n, numRef) ==
    {l \in [1..n -> 0..(numRef - 1)] : \A j, k \in 1..n : j # k => l[j] # l[k]}

MatchInit ==
    /\ pc = "seq"
    /\ WindowIdle
    /\ DepthIdle
    /\ KpIdle
    /\ distMat = <<>>
    /\ \E f \in [1..NumRefImgs -> FrameChoices] :
          /\ denseFtRefAll = [k \in 1..NumRefImgs |-> f[k].dense]
          /\ depImgRefAll = [k \in 1..NumRefImgs |-> f[k].dep]
    /\ denseFtQueryAll \in [1..1 -> QueryChoices]
    /\ topN = Min2(MaxCand, NumRefImgs)
    /\ \E l \in CandidateLists(topN, NumRefImgs) :
          topMatches = [j \in 1..topN |-> <<l[j]>>]
    /\ seqL \in {1, 2, MaxWindow}        \* a single frame, an even window, the longest
    /\ depT \in DepTChoices
    /\ finalScores = <<>>
    /\ bestMatch = <<>>
    /\ DriverIdle

\* one iteration of "for i in range(numQueryImgs)": s = processQueryIndex(i)
\* and finalScores.append(s)
SeqProcessQuery ==
    /\ pc = "seq"
    /\ i < numQueryImgs
    /\ finalScores' = Append(finalScores, processQueryIndex(i))
    /\ i' = i + 1
    /\ pc' = IF i' = numQueryImgs THEN "scored" ELSE "seq"
    /\ UNCHANGED <<bestMatch, MULTITHREADING_ON, scores, taskq, worker, mapResult,
                   started, finished, windowVars, depthVars, kpVars, retrievalVars,
                   dataVars>>

\* bestMatch = topMatches[np.argmin(finalScores,axis=1),np.arange(numQueryImgs)]
SelectBestMatch ==
    /\ pc = "scored"
    /\ bestMatch' = bestMatchOf(finalScores, topMatches)
    /\ pc' = "done"
    /\ UNCHANGED <<finalScores, windowVars, depthVars, kpVars, retrievalVars, dataVars, driverVars>>

MatchNext == SeqProcessQuery \/ SelectBestMatch

SpecMatch == MatchInit /\ [][MatchNext]_vars

-----------------------------------------------------------------------------
(* The re-ranking of one query, stated from the inputs *)

Channels == 0..(numFmaps - 1)
Frames == 0..(numRefImgs - 1)

\* the reference frames of the window of candidate r
WindowFrames(r) ==
    {k \in Frames : k >= r - (seqL \div 2) /\ k < r + (seqL - (seqL \div 2))}

\* the depth at the reference keypoint of every channel in frame k
RefKeypointDepths(k) ==
    getKpDep(ArgmaxAxis0(denseFtRefAll[k + 1]), depImgRefAll[k + 1], c5Shape,
             mulFac_dep2c5(dImgShape, c5Shape))

\* TLC evaluates a function constructor anew at every application; the
\* concatenation turns a sequence into a tuple that is computed once
Tabulate(s) == s \o <<>>

\* passes[k + 1][c + 1]: channel c passes the depth filter in frame k
PassTable ==
    Tabulate([k1 \in 1..numRefImgs |->
        LET depths == Tabulate(RefKeypointDepths(k1 - 1))
        IN  Tabulate([c1 \in 1..numFmaps |-> StrictlyInside(depths[c1], 0, depT)])])

\* dists[k + 1][c + 1]: the cosine distance of channel c between frame k and
\* query q: reference descriptor at the reference keypoint, query descriptor
\* at the query keypoint
DistTable(q) ==
    LET kpQuery == Tabulate(ArgmaxAxis0(denseFtQueryAll[q + 1]))
    IN  Tabulate([k1 \in 1..numRefImgs |->
            LET kpRef == Tabulate(ArgmaxAxis0(denseFtRefAll[k1]))
            IN  Tabulate([c1 \in 1..numFmaps |->
                    CosineDistance(denseFtRefAll[k1][kpRef[c1] + 1],
                                   denseFtQueryAll[q + 1][kpQuery[c1] + 1])])])

\* the frames of the window of r in which channel c passes the depth filter
ValidFrames(passes, r, c) == {k \in WindowFrames(r) : passes[k + 1][c + 1]}

\* the channels that pass the depth filter in some frame of the window of r
ValidChannels(passes, r) == {c \in Channels : ValidFrames(passes, r, c) # {}}

\* the least member of a non-empty set of distances; not-a-number, which is
\* not ordered, when the set holds it
LeastOf(S) == IF NaN \in S THEN NaN ELSE CHOOSE m \in S : \A x \in S : m <= x

\* the collapsed value of channel c for candidate r
Collapsed(passes, dists, r, c) ==
    LeastOf({dists[k + 1][c + 1] : k \in ValidFrames(passes, r, c)})

RECURSIVE SumOver(_, _)
\* the sum of f over the set C
SumOver(f, C) ==
    IF C = {} THEN 0
    ELSE LET c == CHOOSE x \in C : TRUE
         IN  f[c] + SumOver(f, C \ {c})

\* the mean of the collapsed values of the valid channels; not-a-number when
\* there is no valid channel or a collapsed value is not a number
MeanOfValid(passes, dists, r) ==
    LET valid == ValidChannels(passes, r)
        collapsed == [c \in valid |-> Collapsed(passes, dists, r, c)] @@ <<>>
    IN  IF valid = {} \/ \E c \in valid : collapsed[c] = NaN
        THEN NaN
        ELSE SumOver(collapsed, valid) \div Cardinality(valid)

\* every query has been scored and the final matches are about to be selected
Scored == pc = "scored"

(* C7: for every candidate the collapsed value of a channel is the minimum, *)
(* over the window frames in which the channel's reference keypoint passed  *)
(* the depth filter, of the cosine distance of that frame; a channel that   *)
(* passed in no frame keeps the sentinel and is excluded, and the score is  *)
(* the mean of the collapsed values of the valid channels only.             *)
ScoreIsMeanOfWindowMinima ==
    Scored =>
        LET passes == PassTable
        IN  \A q \in 0..(numQueryImgs - 1) :
            LET dists == DistTable(q)
            IN  \A j \in 1..Len(topMatches) :
                LET r == topMatches[j][q + 1]
                    minDists == minDistsOf(denseFtQueryAll[q + 1], r, c5Shape,
                                           mulFac_dep2c5(dImgShape, c5Shape),
                                           numRefImgs, seqL, depT)
                    valid == ValidChannels(passes, r)
                IN  /\ \A c \in Channels :
                          minDists[c + 1] = IF c \in valid
                                            THEN Collapsed(passes, dists, r, c)
                                            ELSE Sentinel
                    /\ \A c \in valid : Collapsed(passes, dists, r, c) # Sentinel
                    /\ finalScores[q + 1][j] = MeanOfValid(passes, dists, r)

\* a window of three frames around r: one channel passes the filter in
\* frames r-1 and r+1 and is nearer in frame r+1, the other channel passes
\* in no frame, and the score is the first channel's distance in frame r+1
ScoreIsMeanOfWindowMinimaWitness ==
    /\ Scored
    /\ seqL = 3
    /\ \E j \in 1..Len(topMatches) :
          LET r == topMatches[j][1]
          IN  /\ WindowFrames(r) = {r - 1, r, r + 1}
              /\ ValidFrames(PassTable, r, 0) = {r - 1, r + 1}
              /\ ValidFrames(PassTable, r, 1) = {}
              /\ DistTable(0)[r + 2][1] # NaN
              /\ DistTable(0)[r][1] # NaN
              /\ DistTable(0)[r + 2][1] < DistTable(0)[r][1]
              /\ finalScores[1][j] = DistTable(0)[r + 2][1]

\* candidate j of query q has no channel that passes the depth filter in
\* any frame of its window
NoValidChannel(q, j) == ValidChannels(PassTable, topMatches[j][q + 1]) = {}

Defined(x) == x # NaN

(* C2: when a candidate has no channel with a depth-valid reference         *)
(* keypoint in any frame of its window, it still gets a defined numeric     *)
(* score, and the final match of the query is a candidate whose score is    *)
(* defined and no greater than every other defined score of the list.       *)
EmptyValidSetScoreIsDefined ==
    pc = "done" =>
        \A q \in 0..(numQueryImgs - 1) :
            (\E j \in 1..Len(topMatches) : NoValidChannel(q, j)) =>
                /\ \A j \in 1..Len(topMatches) :
                      NoValidChannel(q, j) => Defined(finalScores[q + 1][j])
                /\ \E j \in 1..Len(topMatches) :
                      /\ bestMatch[q + 1] = topMatches[j][q + 1]
                      /\ Defined(finalScores[q + 1][j])
                      /\ \A k \in 1..Len(topMatches) :
                            Defined(finalScores[q + 1][k]) =>
                                finalScores[q + 1][j] <= finalScores[q + 1][k]

(* C5: for a query whose candidates all have defined scores, the final      *)
(* match is topMatches[j, q] for the smallest position j of minimum score;  *)
(* the final match is always a member of the candidate list and a valid     *)
(* reference index, and it is the baseline topMatches[0, q] whenever        *)
(* position 0 attains the minimum score.                                    *)
BestMatchIsFirstMinimum ==
    pc = "done" =>
        \A q \in 0..(numQueryImgs - 1) :
            LET s == finalScores[q + 1]
                AllDefined == \A j \in 1..Len(s) : Defined(s[j])
            IN  /\ \E j \in 1..Len(topMatches) : bestMatch[q + 1] = topMatches[j][q + 1]
                /\ bestMatch[q + 1] >= 0 /\ bestMatch[q + 1] < numRefImgs
                /\ AllDefined =>
                      \E j \in 1..Len(s) :
                          /\ \A k \in 1..Len(s) : s[j] <= s[k]
                          /\ \A k \in 1..(j - 1) : s[k] > s[j]
                          /\ bestMatch[q + 1] = topMatches[j][q + 1]
                /\ (AllDefined /\ \A k \in 1..Len(s) : s[1] <= s[k]) =>
                      bestMatch[q + 1] = topMatches[1][q + 1]

\* re-ranking overturns the baseline: the second candidate scores strictly
\* lower than the first and becomes the final match
BestMatchIsFirstMinimumWitness ==
    /\ pc = "done"
    /\ Len(topMatches) = 2
    /\ Defined(finalScores[1][1]) /\ Defined(finalScores[1][2])
    /\ finalScores[1][2] < finalScores[1][1]
    /\ bestMatch[1] = topMatches[2][1]
    /\ bestMatch[1] # topMatches[1][1]

-----------------------------------------------------------------------------
(* Batch Driver: sequential mode and parallel mode.  In parallel mode every *)
(* batch creates a pool of numT worker threads; pool.map queues one task    *)
(* per query of the batch, any idle worker takes the next task, the calls   *)
(* return in any order, every result is stored in the slot of its position  *)
(* in the batch, and map returns when every slot is set.                    *)

\* numT, the number of worker threads and the size of a batch
numT == 4

\* a worker thread that is processing no query
Idle == -1

\* a slot of the map result that is not set yet
None == <<>>

BatchRange_Overlapping(first, n) == Arange(first, Min2(first + numT + 1, n))

\* range(i,min(i+numT,numQueryImgs))
BatchRange(first, n) == Arange(first, Min2(first + numT, n))

RECURSIVE ConcatenateTo(_, _)
\* batches[1] followed by ... followed by batches[n]
ConcatenateTo(batches, n) ==
    IF n = 0 THEN <<>> ELSE ConcatenateTo(batches, n - 1) \o batches[n]

RECURSIVE ConcatenateDownFrom(_, _)
ConcatenateDownFrom(batches, n) ==
    IF n = 0 THEN <<>> ELSE batches[n] \o ConcatenateDownFrom(batches, n - 1)

Concatenate_LastBatchFirst(batches) == ConcatenateDownFrom(batches, Len(batches))

\* np.concatenate(scores): the rows of the batches, one batch after the other
Concatenate(batches) == ConcatenateTo(batches, Len(batches))

\* the data of a run with n queries: reference frame k, query q and the
\* candidate list of query q follow from their index, so that neighbouring
\* queries have different tensors and different candidates
FrameList == <<[dense |-> DenseA, dep |-> <<<<1, 5, 1>>>>],
               [dense |-> DenseB, dep |-> <<<<0, 1, 1>>>>],
               [dense |-> DenseA, dep |-> <<<<0, 5, 1>>>>]>>
QueryList == <<DenseA, DenseB, DenseZ>>
FrameOf(k) == FrameList[(k % Len(FrameList)) + 1]
QueryOf(q) == QueryList[(q % Len(QueryList)) + 1]

DriverInit ==
    /\ WindowIdle
    /\ DepthIdle
    /\ KpIdle
    /\ distMat = <<>>
    /\ denseFtRefAll = [k1 \in 1..NumRefImgs |-> FrameOf(k1 - 1).dense]
    /\ depImgRefAll = [k1 \in 1..NumRefImgs |-> FrameOf(k1 - 1).dep]
    /\ \E n \in 1..MaxQueryImgs :
          denseFtQueryAll = [q1 \in 1..n |-> QueryOf(q1 - 1)]
    /\ topN = Min2(MaxCand, NumRefImgs)
    /\ topMatches = [j \in 1..topN |->
                        [q1 \in 1..numQueryImgs |-> (q1 + j) % NumRefImgs]]
    /\ seqL \in {1, 2}
    /\ depT \in DepTChoices
    /\ finalScores = <<>>
    /\ bestMatch = <<>>
    /\ MULTITHREADING_ON \in BOOLEAN
    /\ pc = IF MULTITHREADING_ON THEN "batch" ELSE "seq"
    /\ i = 0
    /\ scores = <<>>
    /\ taskq = <<>>
    /\ worker = <<>>
    /\ mapResult = <<>>
    /\ started = <<>>
    /\ finished = <<>>

\* one iteration of "for i in range(0,numQueryImgs,numT)" up to the call of
\* pool.map: pool = ThreadPool(numT), and map queues the queries of the batch
StartBatch ==
    /\ pc = "batch"
    /\ worker' = [w \in 1..numT |-> Idle]
    /\ taskq' = BatchRange(i, numQueryImgs)
    /\ mapResult' = [k \in 1..Len(taskq') |-> None]
    /\ pc' = "map"
    /\ UNCHANGED <<MULTITHREADING_ON, i, scores, started, finished, windowVars,
                   depthVars, kpVars, retrievalVars, dataVars, resultVars>>

\* an idle worker thread takes the next task of the queue and calls
\* processQueryIndex
WorkerTake(w) ==
    /\ pc = "map"
    /\ worker[w] = Idle
    /\ taskq # <<>>
    /\ worker' = [worker EXCEPT ![w] = Head(taskq)]
    /\ taskq' = Tail(taskq)
    /\ started' = Append(started, Head(taskq))
    /\ UNCHANGED <<pc, MULTITHREADING_ON, i, scores, mapResult, finished, windowVars,
                   depthVars, kpVars, retrievalVars, dataVars, resultVars>>

\* the call of a worker thread returns: the scores go to the slot of the
\* query's position in the batch
WorkerFinish(w) ==
    /\ pc = "map"
    /\ worker[w] # Idle
    /\ mapResult' = [mapResult EXCEPT ![worker[w] - i + 1] = processQueryIndex(worker[w])]
    /\ worker' = [worker EXCEPT ![w] = Idle]
    /\ finished' = Append(finished, worker[w])
    /\ UNCHANGED <<pc, MULTITHREADING_ON, i, scores, taskq, started, windowVars,
                   depthVars, kpVars, retrievalVars, dataVars, resultVars>>

\* pool.map returns s once every slot is set; pool.close(), pool.join(),
\* scores.append(s), and the loop goes on to the next batch or ends
MapReturn ==
    /\ pc = "map"
    /\ \A k \in 1..Len(mapResult) : mapResult[k] # None
    /\ scores' = Append(scores, mapResult)
    /\ worker' = <<>>
    /\ mapResult' = <<>>
    /\ i' = i + numT
    /\ pc' = IF i' < numQueryImgs THEN "batch" ELSE "concatenate"
    /\ UNCHANGED <<MULTITHREADING_ON, taskq, started, finished, windowVars,
                   depthVars, kpVars, retrievalVars, dataVars, resultVars>>

\* finalScores = np.concatenate(scores)
AssembleFinalScores ==
    /\ pc = "concatenate"
    /\ finalScores' = Concatenate(scores)
    /\ pc' = "scored"
    /\ UNCHANGED <<bestMatch, driverVars, windowVars, depthVars, kpVars,
                   retrievalVars, dataVars>>

DriverNext ==
    \/ SeqProcessQuery
    \/ StartBatch
    \/ \E w \in 1..numT : WorkerTake(w)
    \/ \E w \in 1..numT : WorkerFinish(w)
    \/ MapReturn
    \/ AssembleFinalScores
    \/ SelectBestMatch

\* the step of the sequential loop, by what it does to the loop variable
SeqAdvance == pc = "seq" /\ i < numQueryImgs /\ i' = i + 1

\* the return of the call of worker w, by what it does to the history
WorkerReturns(w) ==
    pc = "map" /\ worker[w] # Idle /\ finished' = Append(finished, worker[w])

\* the main thread runs, every worker thread runs, and every call of
\* processQueryIndex returns
DriverFairness ==
    /\ WF_i(SeqAdvance)
    /\ WF_vars(StartBatch \/ MapReturn \/ AssembleFinalScores \/ SelectBestMatch)
    /\ \A w \in 1..numT : WF_vars(WorkerTake(w)) /\ WF_finished(WorkerReturns(w))

SpecDriver == DriverInit /\ [][DriverNext]_vars /\ DriverFairness

\* what the sequential loop appends: row q is processQueryIndex(q)
SequentialScores == [q1 \in 1..numQueryImgs |-> processQueryIndex(q1 - 1)]

(* C3: in parallel mode, for every number of queries and every order in     *)
(* which the calls of a batch return, finalScores has one row per query and *)
(* row q holds the scores of query q; finalScores and bestMatch are what    *)
(* the sequential loop produces on the same inputs.                         *)
ParallelEqualsSequential ==
    /\ pc \in {"scored", "done"} =>
          /\ Len(finalScores) = numQueryImgs
          /\ \A q \in 0..(numQueryImgs - 1) : finalScores[q + 1] = processQueryIndex(q)
          /\ finalScores = SequentialScores
    /\ pc = "done" => bestMatch = bestMatchOf(SequentialScores, topMatches)

\* six queries, a full batch and a batch of two; the calls of both batches
\* returned out of index order, and neighbouring rows differ
ParallelEqualsSequentialWitness ==
    /\ MULTITHREADING_ON
    /\ pc = "done"
    /\ numQueryImgs = 6
    /\ finished = <<3, 1, 0, 2, 5, 4>>
    /\ finalScores[1] # finalScores[2]
    /\ finalScores[5] # finalScores[6]
    /\ Len(bestMatch) = 6

\* the number of queries being processed
InFlight == Len(started) - Len(finished)

\* the number of times q occurs in the history h
Occurrences(h, q) == Cardinality({a \in 1..Len(h) : h[a] = q})

\* every query of an earlier batch than that of a started query has finished
BatchBarrier ==
    \A a \in 1..Len(started) :
        \A q \in 0..(numQueryImgs - 1) :
            (q \div numT) < (started[a] \div numT) => Occurrences(finished, q) >= 1

ProcessedExactlyOnce ==
    \A q \in 0..(numQueryImgs - 1) :
        Occurrences(started, q) = 1 /\ Occurrences(finished, q) = 1

(* C4: in parallel mode at most numT queries are being processed at any     *)
(* time and no query of a batch starts before every query of the batches    *)
(* before it has finished; when every call returns the driver terminates,   *)
(* and every query index has then been processed exactly once.              *)
BatchesAreBarriers ==
    /\ [](MULTITHREADING_ON =>
            /\ InFlight <= numT
            /\ BatchBarrier
            /\ \A a \in 1..Len(started) : started[a] >= 0 /\ started[a] < numQueryImgs
            /\ pc = "done" => ProcessedExactlyOnce)
    /\ (MULTITHREADING_ON => <>(pc = "done"))

\* the second batch is running: the four queries of the first batch have
\* finished, and the two queries of the second are both being processed
BatchesAreBarriersWitness ==
    /\ MULTITHREADING_ON
    /\ pc = "map"
    /\ i = numT
    /\ started = <<0, 1, 2, 3, 4, 5>>
    /\ Len(finished) = numT
    /\ InFlight = 2

=============================================================================
